---- MODULE Spec2Model ----
(***************************************************************************)
(* Hand-gesture controller of src/components/HandController.tsx: the      *)
(* requestAnimationFrame loop (inertia step, throttled detection), the     *)
(* pose classifier determinePose, the arbiter processState and            *)
(* handleHandLost, together with the App state the callbacks write.        *)
(*                                                                         *)
(* Numbers.  JavaScript doubles are modelled in fixed point:               *)
(*   - landmark coordinates, hand scale and zoom factor in units of 0.001  *)
(*     (zoom 0.5 is 500, the clamp interval [0,1] is 0..1000);             *)
(*   - rotation velocity in units of 0.000001 (0.24 is 240000), so that    *)
(*     the repeated multiplication by 0.90 keeps three more digits.        *)
(* Products round toward zero at that resolution.                          *)
(***************************************************************************)
EXTENDS Integers, Sequences, FiniteSets, TLC

VARIABLES
    currentMode,         \* currentMode.current
    previousPose,        \* previousPose.current
    lastHandCentroid,    \* lastHandCentroid.current: <<>> (null) or <<[x, y]>>
    lastHandScale,       \* lastHandScale.current: <<>> (null) or <<scale>>
    currentRotationVel,  \* currentRotationVel.current
    currentZoomFactor,   \* currentZoomFactor.current
    elapsed,             \* now - lastProcessTimeRef.current, saturated at DETECTION_INTERVAL
    isActive,            \* the effect's isActive flag
    isPhotoFocused,      \* App state written by onPhotoFocusChange
    emitted,             \* callbacks invoked by the latest loop frame, in order
    detected,            \* whether the latest loop frame ran detect()
    lastTick,            \* outcome of the latest detect() that ran
    decaySteps,          \* inertia steps since the velocity was last set, while it is nonzero
    initPc,              \* where init() stands: the await it is suspended at, or how it ended
    stream,              \* the effect's stream: "none", "live" or "stopped" (tracks stopped)
    handLandmarkerRef,   \* handLandmarkerRef.current: "null", "open" or "closed"
    setErrorCalls,       \* the values passed to setError, in order
    treeState,           \* App state written by handleStateChangeFromHand
    propsFocused,        \* isPhotoFocused as closed over by the handlers in propsRef.current
    classified,          \* a hand frame given to determinePose and the pose returned
    gated,               \* two runs of the previous-pose-gated controller, side by side
    gift                 \* one call of the gift link generator's generateGift

\* the controller's refs, the callbacks of the latest frame and photo focus
ctlVars == <<currentMode, previousPose, lastHandCentroid, lastHandScale,
             currentRotationVel, currentZoomFactor, elapsed,
             isPhotoFocused, emitted, detected, lastTick, decaySteps>>

\* the session: the effect's closure variables and the detector
lifeVars == <<initPc, stream, handLandmarkerRef, setErrorCalls>>

\* the App state behind onStateChange
appVars == <<treeState, propsFocused>>

vars == <<currentMode, previousPose, lastHandCentroid, lastHandScale,
          currentRotationVel, currentZoomFactor, elapsed, isActive,
          isPhotoFocused, emitted, detected, lastTick, decaySteps,
          initPc, stream, handLandmarkerRef, setErrorCalls,
          treeState, propsFocused, classified, gated, gift>>

\* the functions and components studied on their own, outside the session
sideVars == <<classified, gated, gift>>

--------------------------------------------------------------------------
(* Configuration constants of the controller *)

DETECTION_INTERVAL == 25

ROTATION_SENSITIVITY == 12

\* INERTIA_DECAY = 0.90, as a percentage
INERTIA_DECAY_PCT == 90

ZOOM_SENSITIVITY == 6

\* Math.abs(currentRotationVel.current) < 0.001, in velocity units
SNAP_EPSILON == 1000

\* Math.abs(dx) > 0.001, in coordinate units
ROTATION_DEADZONE == 1

\* useRef(0.5), in zoom units
INITIAL_ZOOM == 500

\* Math.max(0, Math.min(1, newZoom)): the upper clamp, in zoom units
ZOOM_MAX == 1000

\* velocity units per coordinate unit
VelPerCoord == 10 * 100

HandMode == {"IDLE", "NAVIGATION", "SELECTION"}
Pose == {"OPEN", "FIST", "PINCH_3_OPEN", "POINTING", "UNKNOWN"}

--------------------------------------------------------------------------
(* Arithmetic helpers *)

Abs(n) == IF n < 0 THEN -n ELSE n

\* integer quotient rounded toward zero
TruncDiv(a, b) == IF a >= 0 THEN a \div b ELSE -((-a) \div b)

Max(a, b) == IF a >= b THEN a ELSE b
Min(a, b) == IF a <= b THEN a ELSE b

\* nullable refs
Null == <<>>
Some(v) == <<v>>
IsNull(r) == r = <<>>
Val(r) == r[1]

Ev(cb, val, by) == [cb |-> cb, val |-> val, by |-> by]

--------------------------------------------------------------------------
(* Hand frames: what detectForVideo returns for one hand.                  *)
(* lm[i] is landmark i (thumb tip 4, index tip 8); dw[i] is                *)
(* dist(landmarks[i], landmarks[0]), the distance of landmark i to the     *)
(* wrist; scale is dist(hand[0], hand[9]).                                 *)

\* dTip > dPip * 1.0, as a percentage
EXTENDED_FACTOR_PCT == 100

\* dTip < dPip * 1.25, as a percentage
CURLED_FACTOR_PCT == 125

\* (pinchDist / scale) < 0.35 compared on squares: 0.35^2 = 49 / 400
PINCH_RATIO_SQ_NUM == 49
PINCH_RATIO_SQ_DEN == 400

Pt(x, y) == [x |-> x, y |-> y]

\* distances to the wrist of the PIP joints (6, 10, 14, 18) and the tips
\* (8, 12, 16, 20) of index, middle, ring and pinky
Fingers(i, m, r, p) ==
    (6 :> 100) @@ (10 :> 100) @@ (14 :> 100) @@ (18 :> 100) @@
    (8 :> i) @@ (12 :> m) @@ (16 :> r) @@ (20 :> p)

Hand(thumb, index, dw, scale) ==
    [lm |-> (4 :> thumb) @@ (8 :> index), dw |-> dw, scale |-> scale]

\* centroid x of the pinching hands the detector reports: 0.001 and 0.002
\* apart, either side of the 0.001 dead zone
PinchXs == {500, 501, 502}

\* hand scales the detector reports: 0.2, 0.3 and a hand filling the frame
HandScales == {200, 300, 900}

PinchHand(c, s) ==
    Hand(Pt(c - 10, 400), Pt(c + 10, 400), Fingers(130, 130, 130, 130), s)

\* thumb and index tips 0.02 apart around centroid x, the other fingers
\* out: the hand moves sideways at scale 0.2, or changes scale at x = 0.5
PinchHands ==
    { PinchHand(c, 200) : c \in PinchXs } \cup { PinchHand(500, s) : s \in HandScales }

\* thumb and index far apart: pointing, fist, open hand, a mixed hand, and a
\* hand whose fingers are all both "extended" and "curled" (tip between
\* 1.0 and 1.25 times the PIP distance)
OtherHands ==
    { Hand(Pt(300, 600), Pt(500, 300), Fingers(130, 90, 90, 90), 200),
      Hand(Pt(300, 600), Pt(500, 300), Fingers(90, 90, 90, 90), 200),
      Hand(Pt(300, 600), Pt(500, 300), Fingers(130, 130, 130, 130), 200),
      Hand(Pt(300, 600), Pt(500, 300), Fingers(90, 130, 90, 130), 200),
      Hand(Pt(300, 600), Pt(500, 300), Fingers(110, 110, 110, 110), 200) }

Hands == PinchHands \cup OtherHands

\* what one call of landmarker.detectForVideo can do: throw, or return
\* result.landmarks with no hand or one hand (numHands: 1)
NoHand == [threw |-> FALSE, landmarks |-> <<>>]

DetectResults ==
    {[threw |-> TRUE, landmarks |-> <<>>], NoHand}
        \cup { [threw |-> FALSE, landmarks |-> <<h>>] : h \in Hands }

\* the detector finds no hand or one of hands
Seen(hands) == {NoHand} \cup { [threw |-> FALSE, landmarks |-> <<h>>] : h \in hands }

\* a pinch dragged sideways at scale 0.2: centroid x 0.50, 0.501 and 0.52
RotateXs == {500, 501, 520}

RotateResults == Seen({ PinchHand(x, 200) : x \in RotateXs })

\* a pinch held at x = 0.5 while the hand changes scale: 0.18 and 0.20
ZoomScales == {180, 200}

ZoomResults == Seen({ PinchHand(500, sc) : sc \in ZoomScales })

\* what the detector reports in the session model: a pointing hand, a
\* fist, an open hand, a pinch held still, or no hand
LifeResults ==
    Seen({ Hand(Pt(300, 600), Pt(500, 300), Fingers(130, 90, 90, 90), 200),
           Hand(Pt(300, 600), Pt(500, 300), Fingers(90, 90, 90, 90), 200),
           Hand(Pt(300, 600), Pt(500, 300), Fingers(130, 130, 130, 130), 200),
           PinchHand(500, 200) })

\* a finger as determinePose sees it, <<dTip, dPip>>: curled only, both
\* extended and curled (tip between 1.0 and 1.25 times the PIP distance),
\* extended only, and neither (tip and PIP joint both on the wrist)
FingerShapes == {<<90, 100>>, <<110, 100>>, <<130, 100>>, <<0, 0>>}

\* horizontal gap between thumb tip and index tip at scale 0.2: a pinch
\* (ratio 0.1), the threshold itself (ratio 0.35) and far apart (ratio 1.0)
ThumbGaps == {20, 70, 200}

\* every hand frame built from the finger shapes and the thumb gaps
PoseHands ==
    { Hand(Pt(500 - gap, 400), Pt(500, 400),
           (6 :> i[2]) @@ (10 :> m[2]) @@ (14 :> r[2]) @@ (18 :> p[2]) @@
           (8 :> i[1]) @@ (12 :> m[1]) @@ (16 :> r[1]) @@ (20 :> p[1]),
           200) :
        gap \in ThumbGaps, i \in FingerShapes, m \in FingerShapes,
        r \in FingerShapes, p \in FingerShapes }

\* time between two animation frames, in ms
FrameDts == {13, 25}

\* frame times of a display that refreshes faster than detection runs:
\* no single frame spans the detection interval
ThrottleDts == {8, 17}

\* what the detector reports in the throttle model: a fist, a pinch at
\* x = 0.500 or 0.502, or no hand
ThrottleResults ==
    Seen({ Hand(Pt(300, 600), Pt(500, 300), Fingers(90, 90, 90, 90), 200),
           PinchHand(500, 200), PinchHand(502, 200) })

--------------------------------------------------------------------------
(* Pose classifier *)

isFingerExtended(hand, tipIdx, pipIdx) ==
    hand.dw[tipIdx] * 100 > hand.dw[pipIdx] * EXTENDED_FACTOR_PCT

isFingerCurled(hand, tipIdx, pipIdx) ==
    hand.dw[tipIdx] * 100 < hand.dw[pipIdx] * CURLED_FACTOR_PCT

\* dist(a, b)^2 = Math.hypot(a.x - b.x, a.y - b.y)^2
DistSq(a, b) == (a.x - b.x) * (a.x - b.x) + (a.y - b.y) * (a.y - b.y)

\* (dist(thumbTip, indexTip) / scale) < 0.35, for scale > 0
isPinch(hand, scale) ==
    DistSq(hand.lm[4], hand.lm[8]) * PINCH_RATIO_SQ_DEN
        < PINCH_RATIO_SQ_NUM * scale * scale

\* (variant: FIST is tested before POINTING)
determinePose_FistFirst(hand, scale) ==
    LET indexOut == isFingerExtended(hand, 8, 6)
        midOut == isFingerExtended(hand, 12, 10)
        ringOut == isFingerExtended(hand, 16, 14)
        pinkyOut == isFingerExtended(hand, 20, 18)
        indexCurled == isFingerCurled(hand, 8, 6)
        midCurled == isFingerCurled(hand, 12, 10)
        ringCurled == isFingerCurled(hand, 16, 14)
        pinkyCurled == isFingerCurled(hand, 20, 18)
    IN  IF isPinch(hand, scale) /\ midOut /\ ringOut /\ pinkyOut THEN "PINCH_3_OPEN"
        ELSE IF indexCurled /\ midCurled /\ ringCurled /\ pinkyCurled THEN "FIST"
        ELSE IF indexOut /\ midCurled /\ ringCurled /\ pinkyCurled THEN "POINTING"
        ELSE IF indexOut /\ midOut /\ ringOut /\ pinkyOut THEN "OPEN"
        ELSE "UNKNOWN"

determinePose(hand, scale) ==
    LET indexOut == isFingerExtended(hand, 8, 6)
        midOut == isFingerExtended(hand, 12, 10)
        ringOut == isFingerExtended(hand, 16, 14)
        pinkyOut == isFingerExtended(hand, 20, 18)
        indexCurled == isFingerCurled(hand, 8, 6)
        midCurled == isFingerCurled(hand, 12, 10)
        ringCurled == isFingerCurled(hand, 16, 14)
        pinkyCurled == isFingerCurled(hand, 20, 18)
    IN  IF isPinch(hand, scale) /\ midOut /\ ringOut /\ pinkyOut THEN "PINCH_3_OPEN"
        ELSE IF indexOut /\ midCurled /\ ringCurled /\ pinkyCurled THEN "POINTING"
        ELSE IF indexCurled /\ midCurled /\ ringCurled /\ pinkyCurled THEN "FIST"
        ELSE IF indexOut /\ midOut /\ ringOut /\ pinkyOut THEN "OPEN"
        ELSE "UNKNOWN"

\* the hand with the largest scale among result.landmarks, null if none has
\* a positive scale
MainHand(hands) ==
    IF Len(hands) > 0 /\ hands[1].scale > 0 THEN Some(hands[1]) ELSE Null

--------------------------------------------------------------------------
(* The controller's refs as one record, threaded through a loop frame *)

Ctl ==
    [mode |-> currentMode, prev |-> previousPose,
     centroid |-> lastHandCentroid, scale |-> lastHandScale,
     vel |-> currentRotationVel, zoom |-> currentZoomFactor]

\* (variant: the upper clamp forgotten)
Clamp01_NoUpper(newZoom) == Max(0, newZoom)

\* (variant: the lower clamp forgotten)
Clamp01_NoLower(newZoom) == Min(ZOOM_MAX, newZoom)

\* Math.max(0, Math.min(1, newZoom))
Clamp01(newZoom) == Max(0, Min(ZOOM_MAX, newZoom))

\* (variant: the multiplication by INERTIA_DECAY forgotten)
Decay_NoDecay(vel) == IF Abs(vel) < SNAP_EPSILON THEN 0 ELSE vel

\* (variant: the snap to 0 forgotten)
Decay_NoSnap(vel) == TruncDiv(vel * INERTIA_DECAY_PCT, 100)

\* the inertia step: *= INERTIA_DECAY, then snap to 0 below 0.001
Decay(vel) ==
    LET v == TruncDiv(vel * INERTIA_DECAY_PCT, 100)
    IN  IF Abs(v) < SNAP_EPSILON THEN 0 ELSE v

\* (variant: the sign of the displacement kept)
RotationFromDx_SameSign(dx) == dx * ROTATION_SENSITIVITY * VelPerCoord

\* -dx * ROTATION_SENSITIVITY
RotationFromDx(dx) == (-dx) * ROTATION_SENSITIVITY * VelPerCoord

\* (variant: no dead zone, every displacement sets the velocity)
MovedEnough_Always(dx) == TRUE

\* Math.abs(dx) > 0.001
MovedEnough(dx) == Abs(dx) > ROTATION_DEADZONE

\* (variant: PINCH waits for a second consecutive PINCH tick)
PinchMode_Debounced(c, pose) == IF c.prev = pose THEN "NAVIGATION" ELSE c.mode

\* currentMode.current = 'NAVIGATION'
PinchMode(c, pose) == "NAVIGATION"

\* (variant: navigation does not release the photo focus)
PinchFocus_Kept == <<>>

\* onPhotoFocusChange(false) at the start of the PINCH branch
PinchFocus == <<Ev("onPhotoFocusChange", FALSE, "processState")>>

\* processState, pose === 'PINCH_3_OPEN'
PinchBranch(c, pose, hand, scale) ==
    LET pinchX == (hand.lm[4].x + hand.lm[8].x) \div 2
        pinchY == (hand.lm[4].y + hand.lm[8].y) \div 2
        dx == IF IsNull(c.centroid) THEN 0 ELSE pinchX - Val(c.centroid).x
        rotates == ~IsNull(c.centroid) /\ MovedEnough(dx)
        vel == IF rotates THEN RotationFromDx(dx) ELSE c.vel
        zooms == ~IsNull(c.scale)
        newZoom == IF zooms
                   THEN Clamp01(c.zoom + (scale - Val(c.scale)) * ZOOM_SENSITIVITY)
                   ELSE c.zoom
    IN  [c |-> [mode |-> PinchMode(c, pose), prev |-> pose,
                centroid |-> Some(Pt(pinchX, pinchY)), scale |-> Some(scale),
                vel |-> vel, zoom |-> newZoom],
         ev |-> PinchFocus
                \o (IF rotates THEN <<Ev("onRotateChange", vel, "processState")>> ELSE <<>>)
                \o (IF zooms THEN <<Ev("onZoomChange", newZoom, "processState")>> ELSE <<>>)]

\* (variant: POINTING arms the selection without focusing)
PointingBranch_ArmsOnly(c, pose) ==
    [c |-> [c EXCEPT !.mode = "SELECTION", !.centroid = Null, !.scale = Null,
                     !.prev = pose],
     ev |-> <<>>]

\* processState, pose === 'POINTING'
PointingBranch(c, pose) ==
    [c |-> [c EXCEPT !.mode = "SELECTION", !.centroid = Null, !.scale = Null,
                     !.prev = pose],
     ev |-> <<Ev("onPhotoFocusChange", TRUE, "processState")>>]

\* (variant: FIST leaves the navigation deltas in place)
FistBranch_KeepsDeltas(c, pose) ==
    [c |-> [c EXCEPT !.mode = "IDLE", !.prev = pose],
     ev |-> <<Ev("onStateChange", "FORMED", "processState"),
              Ev("onPhotoFocusChange", FALSE, "processState")>>]

\* processState, pose === 'FIST'
FistBranch(c, pose) ==
    [c |-> [c EXCEPT !.mode = "IDLE", !.centroid = Null, !.scale = Null,
                     !.prev = pose],
     ev |-> <<Ev("onStateChange", "FORMED", "processState"),
              Ev("onPhotoFocusChange", FALSE, "processState")>>]

\* (variant: OPEN disperses the tree without releasing the photo focus)
OpenBranch_KeepsFocus(c, pose) ==
    [c |-> [c EXCEPT !.mode = "IDLE", !.centroid = Null, !.scale = Null,
                     !.prev = pose],
     ev |-> <<Ev("onStateChange", "CHAOS", "processState")>>]

\* processState, pose === 'OPEN'
OpenBranch(c, pose) ==
    [c |-> [c EXCEPT !.mode = "IDLE", !.centroid = Null, !.scale = Null,
                     !.prev = pose],
     ev |-> <<Ev("onStateChange", "CHAOS", "processState"),
              Ev("onPhotoFocusChange", FALSE, "processState")>>]

\* (variant: an unrecognised pose puts the zoom back to its initial value)
UnknownBranch_ResetsZoom(c, pose) ==
    [c |-> [c EXCEPT !.mode = "IDLE", !.centroid = Null, !.scale = Null,
                     !.prev = pose, !.zoom = INITIAL_ZOOM],
     ev |-> IF c.mode = "SELECTION"
            THEN <<Ev("onPhotoFocusChange", FALSE, "processState")>>
            ELSE <<>>]

\* (variant: an unrecognised pose leaves the mode alone)
UnknownBranch_KeepsMode(c, pose) ==
    [c |-> [c EXCEPT !.centroid = Null, !.scale = Null, !.prev = pose],
     ev |-> IF c.mode = "SELECTION"
            THEN <<Ev("onPhotoFocusChange", FALSE, "processState")>>
            ELSE <<>>]

\* (variant: an unrecognised pose leaves SELECTION without releasing the focus)
UnknownBranch_Silent(c, pose) ==
    [c |-> [c EXCEPT !.mode = "IDLE", !.centroid = Null, !.scale = Null,
                     !.prev = pose],
     ev |-> <<>>]

\* processState, any other pose (UNKNOWN)
UnknownBranch(c, pose) ==
    [c |-> [c EXCEPT !.mode = "IDLE", !.centroid = Null, !.scale = Null,
                     !.prev = pose],
     ev |-> IF c.mode = "SELECTION"
            THEN <<Ev("onPhotoFocusChange", FALSE, "processState")>>
            ELSE <<>>]

processState(c, pose, hand, scale) ==
    IF pose = "PINCH_3_OPEN" THEN PinchBranch(c, pose, hand, scale)
    ELSE IF pose = "POINTING" THEN PointingBranch(c, pose)
    ELSE IF pose = "FIST" THEN FistBranch(c, pose)
    ELSE IF pose = "OPEN" THEN OpenBranch(c, pose)
    ELSE UnknownBranch(c, pose)

\* (variant: hand loss resets mode and focus but keeps the navigation deltas)
handleHandLost_KeepsDeltas(c) ==
    [c |-> [c EXCEPT !.mode = "IDLE"],
     ev |-> <<Ev("onPhotoFocusChange", FALSE, "handleHandLost")>>]

\* (variant: hand loss clears the navigation deltas only)
handleHandLost_DeltasOnly(c) ==
    [c |-> [c EXCEPT !.centroid = Null, !.scale = Null], ev |-> <<>>]

handleHandLost(c) ==
    [c |-> [c EXCEPT !.mode = "IDLE", !.centroid = Null, !.scale = Null],
     ev |-> <<Ev("onPhotoFocusChange", FALSE, "handleHandLost")>>]

\* detect(): the detector throws (caught, return), finds no hand, or the
\* main hand is classified and arbitrated
detect(c, result) ==
    IF result.threw THEN [c |-> c, ev |-> <<>>, tick |-> "THREW"]
    ELSE LET mainHand == MainHand(result.landmarks)
         IN  IF IsNull(mainHand)
             THEN handleHandLost(c) @@ [tick |-> "LOST"]
             ELSE LET hand == Val(mainHand)
                      pose == determinePose(hand, hand.scale)
                  IN  processState(c, pose, hand, hand.scale) @@ [tick |-> pose]

\* (variant: the inertia step runs in every mode)
Inertia_EveryMode(c) ==
    [c |-> [c EXCEPT !.vel = Decay(c.vel)],
     ev |-> <<Ev("onRotateChange", Decay(c.vel), "loop")>>]

\* the inertia step of loop(): only while the mode is not NAVIGATION
Inertia(c) ==
    IF c.mode # "NAVIGATION"
    THEN LET v == Decay(c.vel)
         IN  [c |-> [c EXCEPT !.vel = v],
              ev |-> <<Ev("onRotateChange", v, "loop")>>]
    ELSE [c |-> c, ev |-> <<>>]

\* (variant: no throttle, detection on every frame)
IntervalElapsed_Always(el) == TRUE

\* now - lastProcessTimeRef.current >= DETECTION_INTERVAL, on the saturated clock
IntervalElapsed(el) == el >= DETECTION_INTERVAL

\* App: onPhotoFocusChange = setIsPhotoFocused; the last value set wins
FocusAfter(evs, cur) ==
    LET idx == { i \in DOMAIN evs : evs[i].cb = "onPhotoFocusChange" }
    IN  IF idx = {} THEN cur
        ELSE evs[CHOOSE i \in idx : \A j \in idx : j <= i].val

HasCb(evs, cb) == \E i \in DOMAIN evs : evs[i].cb = cb

\* App: onStateChange = handleStateChangeFromHand, which returns without
\* setTreeState when the isPhotoFocused it closed over is true
handleStateChangeFromHand(evs, tree, focused) ==
    LET idx == { i \in DOMAIN evs : evs[i].cb = "onStateChange" }
    IN  IF idx = {} \/ focused THEN tree
        ELSE evs[CHOOSE i \in idx : \A j \in idx : j <= i].val

--------------------------------------------------------------------------
(* Actions *)

\* the refs as initialised, after init() has made its first call of loop():
\* that call runs the inertia step on velocity 0 and, made right after
\* lastProcessTimeRef was set, does not reach detect()
InitRunning ==
    /\ currentMode = "IDLE"
    /\ previousPose = "UNKNOWN"
    /\ lastHandCentroid = Null
    /\ lastHandScale = Null
    /\ currentRotationVel = 0
    /\ currentZoomFactor = INITIAL_ZOOM
    /\ elapsed = 0
    /\ isActive = TRUE
    /\ isPhotoFocused = FALSE
    /\ emitted = <<Ev("onRotateChange", 0, "loop")>>
    /\ detected = FALSE
    /\ lastTick = "NONE"
    /\ decaySteps = 0
    /\ initPc = "running"
    /\ stream = "live"
    /\ handLandmarkerRef = "open"
    /\ setErrorCalls = <<>>
    /\ treeState = "CHAOS"
    /\ propsFocused = FALSE

\* the session as init() leaves it, with nothing under study on the side
Init ==
    /\ InitRunning
    /\ classified = <<>>
    /\ gated = <<>>
    /\ gift = <<>>

\* (variant: loop() does not look at isActive)
LoopRuns_TornDown == TRUE

\* loop() goes past its first line: if (!isActive) return
LoopRuns == isActive

\* one call of loop(): dt ms after the previous frame, with the video ready
\* or not, and result what the detector would do if asked
Loop(dt, ready, result) ==
    /\ LoopRuns
    /\ \E i \in {Inertia(Ctl)} :
       \E el \in {Min(elapsed + dt, DETECTION_INTERVAL)} :
       \E runs \in {IntervalElapsed(el) /\ ready} :
       \E d \in {IF runs THEN detect(i.c, result)
                 ELSE [c |-> i.c, ev |-> <<>>, tick |-> lastTick]} :
       \E evs \in {i.ev \o d.ev} :
       \E steps \in {IF currentMode = "NAVIGATION" THEN decaySteps
                    ELSE IF i.c.vel # 0 THEN decaySteps + 1 ELSE 0} :
           /\ currentMode' = d.c.mode
           /\ previousPose' = d.c.prev
           /\ lastHandCentroid' = d.c.centroid
           /\ lastHandScale' = d.c.scale
           /\ currentRotationVel' = d.c.vel
           /\ currentZoomFactor' = d.c.zoom
           /\ elapsed' = IF runs THEN 0 ELSE el
           /\ isPhotoFocused' = FocusAfter(evs, isPhotoFocused)
           /\ emitted' = evs
           /\ detected' = runs
           /\ lastTick' = d.tick
           /\ decaySteps' = IF HasCb(d.ev, "onRotateChange") THEN 0 ELSE steps
    /\ UNCHANGED isActive

\* whether the frame dt ms after the previous one reaches detect()
Runs(dt, ready) == IntervalElapsed(Min(elapsed + dt, DETECTION_INTERVAL)) /\ ready

\* a loop frame of the running session, the detector answering from
\* results; it is asked only on the frames that reach detect()
FrameAt(dts, results) ==
    /\ initPc = "running"
    /\ \E dt \in dts, ready \in BOOLEAN :
           \E result \in (IF Runs(dt, ready) THEN results ELSE {NoHand}) :
               Loop(dt, ready, result)
    /\ UNCHANGED <<lifeVars, sideVars>>

FrameWith(results) == FrameAt(FrameDts, results)

\* the controller of a session whose init() succeeded; the App's tree state
\* is not followed here
Next == FrameWith(DetectResults) /\ UNCHANGED appVars

Spec == Init /\ [][Next]_vars

\* the same controller under a pinch dragged sideways
NextRotate == FrameWith(RotateResults) /\ UNCHANGED appVars

SpecRotate == Init /\ [][NextRotate]_vars

\* the same controller under a pinch that changes scale
NextZoom == FrameWith(ZoomResults) /\ UNCHANGED appVars

SpecZoom == Init /\ [][NextZoom]_vars

\* the same controller on a fast display
NextThrottle == FrameAt(ThrottleDts, ThrottleResults) /\ UNCHANGED appVars

SpecThrottle == Init /\ [][NextThrottle]_vars

--------------------------------------------------------------------------
(* determinePose on its own: a hand frame is drawn, then classified *)

InitPose ==
    /\ InitRunning
    /\ classified \in { [hand |-> h, pose |-> "NONE"] : h \in PoseHands }
    /\ gated = <<>>
    /\ gift = <<>>

\* const pose = determinePose(mainHand, maxScale)
Classify ==
    /\ classified.pose = "NONE"
    /\ classified' =
           [classified EXCEPT !.pose = determinePose(classified.hand, classified.hand.scale)]
    /\ UNCHANGED <<ctlVars, lifeVars, appVars, isActive, gated, gift>>

NextPose == Classify

SpecPose == InitPose /\ [][NextPose]_vars

--------------------------------------------------------------------------
(* The controller variant of src/unnamed/part_004, which gates the tree    *)
(* events on the previous pose. Two runs of it are stepped side by side:   *)
(* each sees poses of its own, then both lose the hand, then both see the  *)
(* same poses. A tick is given the pose determinePose returned, or "LOST". *)

\* the refs of part_004 as initialised
GatedInit ==
    [mode |-> "IDLE", prev |-> "UNKNOWN", centroid |-> Null, scale |-> Null,
     vel |-> 0, zoom |-> INITIAL_ZOOM]

\* part_004 processState, pose === 'PINCH_3_OPEN'
GatedPinch(c, pose, hand, scale) ==
    LET pinchX == (hand.lm[4].x + hand.lm[8].x) \div 2
        pinchY == (hand.lm[4].y + hand.lm[8].y) \div 2
        dx == IF IsNull(c.centroid) THEN 0 ELSE pinchX - Val(c.centroid).x
        rotates == ~IsNull(c.centroid) /\ MovedEnough(dx)
        vel == IF rotates THEN RotationFromDx(dx) ELSE c.vel
        zooms == ~IsNull(c.scale)
        newZoom == IF zooms
                   THEN Clamp01(c.zoom + (scale - Val(c.scale)) * ZOOM_SENSITIVITY)
                   ELSE c.zoom
    IN  [c |-> [mode |-> "NAVIGATION", prev |-> pose,
                centroid |-> Some(Pt(pinchX, pinchY)), scale |-> Some(scale),
                vel |-> vel, zoom |-> newZoom],
         ev |-> (IF rotates THEN <<Ev("onRotateChange", vel, "processState")>> ELSE <<>>)
                \o (IF zooms THEN <<Ev("onZoomChange", newZoom, "processState")>> ELSE <<>>)
                \o <<Ev("onPhotoFocusChange", FALSE, "processState")>>]

\* part_004 processState, the else branch: "Exit Navigation"
GatedExitNavigation(c) ==
    IF c.mode = "NAVIGATION"
    THEN [c EXCEPT !.centroid = Null, !.scale = Null, !.mode = "IDLE"]
    ELSE c

\* part_004 processState
gatedProcessState(c, pose, hand, scale) ==
    IF pose = "PINCH_3_OPEN" THEN GatedPinch(c, pose, hand, scale)
    ELSE LET x == GatedExitNavigation(c)
         IN  [c |-> [x EXCEPT !.mode = "IDLE", !.prev = pose],
              ev |-> IF pose = "FIST"
                     THEN IF x.prev = "OPEN"
                          THEN <<Ev("onStateChange", "FORMED", "processState")>>
                          ELSE <<>>
                     ELSE IF pose = "OPEN"
                     THEN (IF x.prev = "FIST" /\ x.mode = "IDLE"
                           THEN <<Ev("onStateChange", "CHAOS", "processState")>>
                           ELSE <<>>)
                          \o <<Ev("onPhotoFocusChange", FALSE, "processState")>>
                     ELSE <<>>]

\* part_004 handleHandLost
gatedHandleHandLost(c) ==
    [c |-> [c EXCEPT !.mode = "IDLE", !.centroid = Null, !.scale = Null],
     ev |-> <<Ev("onPhotoFocusChange", FALSE, "handleHandLost")>>]

\* what one tick of part_004's detect() is given
GatedInputs == Pose \cup {"LOST"}

\* one tick of part_004's detect(): no hand, or the pose of a hand (a pinch
\* is held at x = 0.5 and scale 0.2)
GatedTick(c, input) ==
    IF input = "LOST" THEN gatedHandleHandLost(c)
    ELSE gatedProcessState(c, input, PinchHand(500, 200), 200)

InitGated ==
    /\ InitRunning
    /\ classified = <<>>
    /\ gated = [a |-> GatedInit, b |-> GatedInit, evA |-> <<>>, evB |-> <<>>,
                phase |-> "before"]
    /\ gift = <<>>

\* before the loss each run sees an input of its own
GatedBefore(ia, ib) ==
    /\ gated.phase = "before"
    /\ gated' = [gated EXCEPT !.a = GatedTick(gated.a, ia).c,
                               !.b = GatedTick(gated.b, ib).c,
                               !.evA = GatedTick(gated.a, ia).ev,
                               !.evB = GatedTick(gated.b, ib).ev]
    /\ UNCHANGED <<ctlVars, lifeVars, appVars, isActive, classified, gift>>

\* both runs lose the hand on the same tick
GatedLoss ==
    /\ gated.phase = "before"
    /\ gated' = [gated EXCEPT !.a = GatedTick(gated.a, "LOST").c,
                               !.b = GatedTick(gated.b, "LOST").c,
                               !.evA = GatedTick(gated.a, "LOST").ev,
                               !.evB = GatedTick(gated.b, "LOST").ev,
                               !.phase = "after"]
    /\ UNCHANGED <<ctlVars, lifeVars, appVars, isActive, classified, gift>>

\* after the loss both runs see the same input
GatedAfter(input) ==
    /\ gated.phase = "after"
    /\ gated' = [gated EXCEPT !.a = GatedTick(gated.a, input).c,
                               !.b = GatedTick(gated.b, input).c,
                               !.evA = GatedTick(gated.a, input).ev,
                               !.evB = GatedTick(gated.b, input).ev]
    /\ UNCHANGED <<ctlVars, lifeVars, appVars, isActive, classified, gift>>

NextGated ==
    \/ \E ia \in GatedInputs, ib \in GatedInputs : GatedBefore(ia, ib)
    \/ GatedLoss
    \/ \E input \in GatedInputs : GatedAfter(input)

SpecGated == InitGated /\ [][NextGated]_vars

--------------------------------------------------------------------------
(* The gift link generator of src/unnamed/part_003: one run of             *)
(* generateGift over the form's gift code, custom ID and selected files.   *)
(* gift.pc names the await the run is suspended at, or "done".             *)

\* longest gift code and custom ID typed into the form
MaxGiftText == 2

\* characters the pattern [a-zA-Z0-9-_] accepts, among those typed
IdChars == {"a", "9", "-", "_"}

\* characters typed into the custom ID field
GiftChars == IdChars \cup {"!", " "}

\* characters typed into the gift code field
CodeChars == {"a", " "}

\* texts of at most MaxGiftText characters over chars
GiftTexts(chars) == UNION { [1..n -> chars] : n \in 0..MaxGiftText }

\* most files selected
MaxFiles == 2

\* String.prototype.trim on the characters typed
RECURSIVE trim(_)
trim(t) ==
    IF t = <<>> THEN t
    ELSE IF Head(t) = " " THEN trim(Tail(t))
    ELSE IF t[Len(t)] = " " THEN trim(SubSeq(t, 1, Len(t) - 1))
    ELSE t

\* idRegex.test(customId) for /^[a-zA-Z0-9-_]+$/
idRegexTest(t) == Len(t) >= 1 /\ \A i \in DOMAIN t : t[i] \in IdChars

\* the three front-end checks of generateGift pass
InputsPass(g) ==
    /\ trim(g.giftCode) # <<>>
    /\ g.customId # <<>> /\ idRegexTest(g.customId)
    /\ g.files # 0

\* what the pre-check query can answer: an error, a row, or no row
PreCheckAnswers == {"error", "exists", "free"}

\* what supabase.rpc can resolve to: an error, or data that is null, an
\* object, an empty array or an array of one object; the object's success
\* field is true, false or absent
RpcAnswers ==
    {[error |-> TRUE, shape |-> "null", success |-> "absent"]}
        \cup { [error |-> FALSE, shape |-> sh, success |-> "absent"] :
                   sh \in {"null", "array0"} }
        \cup { [error |-> FALSE, shape |-> sh, success |-> su] :
                   sh \in {"object", "array1"}, su \in {"true", "false", "absent"} }

NoAnswer == [error |-> FALSE, shape |-> "none", success |-> "absent"]

\* resultObj = Array.isArray(result) ? result[0] : result
resultObj(data) ==
    IF data.shape \in {"object", "array1"} THEN Some(data.success) ELSE Null

\* if (resultObj && !resultObj.success) throw
RpcThrows(answer) ==
    \/ answer.error
    \/ ~IsNull(resultObj(answer)) /\ Val(resultObj(answer)) # "true"

InitGift ==
    /\ InitRunning
    /\ classified = <<>>
    /\ gated = <<>>
    /\ gift \in { [pc |-> "validate", giftCode |-> code, customId |-> id,
                   files |-> n, status |-> "idle", preCheck |-> "none",
                   uploads |-> 0, rpcIssued |-> FALSE, rpc |-> NoAnswer] :
                     code \in GiftTexts(CodeChars), id \in GiftTexts(GiftChars), n \in 0..MaxFiles }

\* generateGift up to its first await: the front-end checks
Validate ==
    /\ gift.pc = "validate"
    /\ gift' = IF InputsPass(gift)
               THEN [gift EXCEPT !.pc = "preCheck", !.status = "checking"]
               ELSE [gift EXCEPT !.pc = "done", !.status = "error"]
    /\ UNCHANGED <<ctlVars, lifeVars, appVars, isActive, classified, gated>>

\* the pre-check query settles
PreCheck(answer) ==
    /\ gift.pc = "preCheck"
    /\ gift' = IF answer = "free"
               THEN [gift EXCEPT !.pc = "upload", !.status = "uploading",
                                 !.preCheck = answer]
               ELSE [gift EXCEPT !.pc = "done", !.status = "error",
                                 !.preCheck = answer]
    /\ UNCHANGED <<ctlVars, lifeVars, appVars, isActive, classified, gated>>

\* every file is put to object storage, all puts started together;
\* Promise.all settles: the RPC is issued when every put succeeded
Upload(oks) ==
    /\ gift.pc = "upload"
    /\ gift' = IF \A i \in 1..gift.files : oks[i]
               THEN [gift EXCEPT !.pc = "rpc", !.uploads = gift.files,
                                 !.rpcIssued = TRUE]
               ELSE [gift EXCEPT !.pc = "done", !.uploads = gift.files,
                                 !.status = "error"]
    /\ UNCHANGED <<ctlVars, lifeVars, appVars, isActive, classified, gated>>

\* the create_gift_with_code RPC settles
Rpc(answer) ==
    /\ gift.pc = "rpc"
    /\ gift' = [gift EXCEPT !.pc = "done", !.rpc = answer,
                            !.status = IF RpcThrows(answer) THEN "error"
                                       ELSE "success"]
    /\ UNCHANGED <<ctlVars, lifeVars, appVars, isActive, classified, gated>>

NextGift ==
    \/ Validate
    \/ \E answer \in PreCheckAnswers : PreCheck(answer)
    \/ \E oks \in [1..MaxFiles -> BOOLEAN] : Upload(oks)
    \/ \E answer \in RpcAnswers : Rpc(answer)

SpecGift == InitGift /\ [][NextGift]_vars

--------------------------------------------------------------------------
(* The session: the effect that runs init() and returns the cleanup.      *)
(* initPc names the await init() is suspended at ("getUserMedia",          *)
(* "loadedmetadata", "play", "forVisionTasks", "createFromOptions"), or    *)
(* how it ended: "running" (loop() started), "returned" (returned early)   *)
(* or "failed" (an error path was taken).                                  *)

\* (variant: the failure is not reported)
Report_Silent(msg) == setErrorCalls

\* if (isActive) setError(msg)
Report(msg) == IF isActive THEN Append(setErrorCalls, msg) ELSE setErrorCalls

\* the effect has run init() up to its first await: videoRef is set, and
\* either the camera API is missing (throw, caught, reported) or
\* getUserMedia is pending
InitMount ==
    /\ currentMode = "IDLE"
    /\ previousPose = "UNKNOWN"
    /\ lastHandCentroid = Null
    /\ lastHandScale = Null
    /\ currentRotationVel = 0
    /\ currentZoomFactor = INITIAL_ZOOM
    /\ elapsed = 0
    /\ isActive = TRUE
    /\ isPhotoFocused = FALSE
    /\ emitted = <<>>
    /\ detected = FALSE
    /\ lastTick = "NONE"
    /\ decaySteps = 0
    /\ stream = "none"
    /\ handLandmarkerRef = "null"
    /\ treeState = "CHAOS"
    /\ propsFocused = FALSE
    /\ classified = <<>>
    /\ gated = <<>>
    /\ gift = <<>>
    /\ \/ initPc = "getUserMedia" /\ setErrorCalls = <<>>
       \/ initPc = "failed" /\ setErrorCalls = <<"Camera Error">>

\* getUserMedia settles: rejected, the failure is reported and init returns;
\* granted after the cleanup, the tracks are stopped and init returns
GetUserMedia(granted) ==
    /\ initPc = "getUserMedia"
    /\ IF ~granted
       THEN /\ initPc' = "failed"
            /\ setErrorCalls' = Report("Camera Disabled")
            /\ UNCHANGED stream
       ELSE /\ initPc' = IF isActive THEN "loadedmetadata" ELSE "returned"
            /\ stream' = IF isActive THEN "live" ELSE "stopped"
            /\ UNCHANGED setErrorCalls
    /\ UNCHANGED <<sideVars, ctlVars, appVars, isActive, handLandmarkerRef>>

\* the metadata promise resolves; play() is called unless torn down
LoadedMetadata ==
    /\ initPc = "loadedmetadata"
    /\ initPc' = IF isActive THEN "play" ELSE "returned"
    /\ UNCHANGED <<sideVars, ctlVars, appVars, isActive, stream, handLandmarkerRef, setErrorCalls>>

\* play() settles (a rejection is caught and logged); forVisionTasks is
\* called without looking at isActive
Play ==
    /\ initPc = "play"
    /\ initPc' = "forVisionTasks"
    /\ UNCHANGED <<sideVars, ctlVars, appVars, isActive, stream, handLandmarkerRef, setErrorCalls>>

\* FilesetResolver.forVisionTasks settles
ForVisionTasks(ok) ==
    /\ initPc = "forVisionTasks"
    /\ IF ~ok
       THEN /\ initPc' = "failed"
            /\ setErrorCalls' = Report("Camera Error")
       ELSE /\ initPc' = IF isActive THEN "createFromOptions" ELSE "returned"
            /\ UNCHANGED setErrorCalls
    /\ UNCHANGED <<sideVars, ctlVars, appVars, isActive, stream, handLandmarkerRef>>

\* HandLandmarker.createFromOptions settles: on success the landmarker is
\* stored, the clock is set and loop() is called, which returns at once when
\* torn down and otherwise runs its first frame (the inertia step only)
CreateFromOptions(ok) ==
    /\ initPc = "createFromOptions"
    /\ IF ~ok
       THEN /\ initPc' = "failed"
            /\ setErrorCalls' = Report("Camera Error")
            /\ UNCHANGED <<ctlVars, handLandmarkerRef>>
       ELSE /\ handLandmarkerRef' = "open"
            /\ elapsed' = 0
            /\ initPc' = IF LoopRuns THEN "running" ELSE "returned"
            /\ currentRotationVel' =
                   IF LoopRuns THEN Inertia(Ctl).c.vel ELSE currentRotationVel
            /\ emitted' = IF LoopRuns THEN Inertia(Ctl).ev ELSE emitted
            /\ UNCHANGED <<currentMode, previousPose, lastHandCentroid, lastHandScale,
                           currentZoomFactor, isPhotoFocused, detected, lastTick,
                           decaySteps, setErrorCalls>>
    /\ UNCHANGED <<sideVars, appVars, isActive, stream>>

\* the effect's cleanup, run once when the component unmounts; the pending
\* animation frame is cancelled, so no frame follows
Cleanup ==
    /\ isActive
    /\ isActive' = FALSE
    /\ stream' = IF stream = "live" THEN "stopped" ELSE stream
    /\ handLandmarkerRef' = IF handLandmarkerRef = "open" THEN "closed" ELSE handLandmarkerRef
    /\ UNCHANGED <<sideVars, ctlVars, appVars, initPc, setErrorCalls>>

\* App handles the onStateChange calls of the frame, through the handler
\* that propsRef.current holds
AppFrame ==
    /\ treeState' = handleStateChangeFromHand(emitted', treeState, propsFocused)
    /\ UNCHANGED propsFocused

\* App renders again after a state change and HandController's effect
\* stores the new props in propsRef.current: from now on the handlers see
\* the current isPhotoFocused
Render ==
    /\ propsFocused # isPhotoFocused
    /\ propsFocused' = isPhotoFocused
    /\ UNCHANGED <<sideVars, ctlVars, lifeVars, isActive, treeState>>

NextLife ==
    \/ \E granted \in BOOLEAN : GetUserMedia(granted)
    \/ LoadedMetadata
    \/ Play
    \/ \E ok \in BOOLEAN : ForVisionTasks(ok)
    \/ \E ok \in BOOLEAN : CreateFromOptions(ok)
    \/ Cleanup
    \/ FrameWith(LifeResults) /\ AppFrame
    \/ Render

SpecLife == InitMount /\ [][NextLife]_vars

--------------------------------------------------------------------------
(* Properties *)

\* frames within which the inertia step brings the largest velocity of this
\* model (0.024) to exactly 0
DecayFrames == 31

\* the loop frame just taken ran detect() and it classified pose p
Ticked(p) == detected /\ lastTick = p

\* events of the frame that processState or handleHandLost emitted
ByArbiter(evs) == { i \in DOMAIN evs : evs[i].by # "loop" }

\* a navigation update: onZoomChange, or an onRotateChange driven by the pinch
NavUpdate(e) ==
    \/ e.cb = "onZoomChange"
    \/ e.cb = "onRotateChange" /\ e.by = "processState"

\* C1: the zoom factor and every value passed to onZoomChange lie in [0,1]
\* after any sequence of frames and ticks, and the zoom factor is 0.5 until
\* the first detection tick.
C1_ZoomInRange ==
    /\ currentZoomFactor \in 0..ZOOM_MAX
    /\ \A i \in DOMAIN emitted :
           emitted[i].cb = "onZoomChange" => emitted[i].val \in 0..ZOOM_MAX
    /\ lastTick = "NONE" => currentZoomFactor = INITIAL_ZOOM

\* a PINCH tick whose scale jumped to 0.9 (a change of at least 0.6, a zoom
\* delta of at least 3.6) delivered the clamped value 1
C1_Witness ==
    /\ Ticked("PINCH_3_OPEN")
    /\ lastHandScale = Some(900)
    /\ currentZoomFactor = ZOOM_MAX
    /\ \E i \in DOMAIN emitted :
           emitted[i].cb = "onZoomChange" /\ emitted[i].val = ZOOM_MAX

\* C2: exactly one mode is active, navigation never coexists with photo
\* focus, and no frame emits both a navigation update and
\* onPhotoFocusChange(true).
C2_ModeExclusive ==
    /\ currentMode \in HandMode
    /\ currentMode = "NAVIGATION" => ~isPhotoFocused
    /\ ~ /\ \E i \in DOMAIN emitted : NavUpdate(emitted[i])
         /\ \E j \in DOMAIN emitted :
                emitted[j].cb = "onPhotoFocusChange" /\ emitted[j].val = TRUE

\* a PINCH tick that emitted both navigation updates
C2_Witness ==
    /\ Ticked("PINCH_3_OPEN")
    /\ currentMode = "NAVIGATION"
    /\ \E i \in DOMAIN emitted : emitted[i].cb = "onZoomChange"
    /\ \E i \in DOMAIN emitted :
           emitted[i].cb = "onRotateChange" /\ emitted[i].by = "processState"

\* C3: a tick whose classified pose is PINCH_3_OPEN ends in mode NAVIGATION,
\* whatever the mode and the poses before it.
C3_PinchImmediate == Ticked("PINCH_3_OPEN") => currentMode = "NAVIGATION"

\* a PINCH tick taken from a mode other than NAVIGATION (the inertia step
\* of its frame ran) right after a different outcome (no centroid was kept)
C3_Witness ==
    /\ Ticked("PINCH_3_OPEN")
    /\ currentMode = "NAVIGATION"
    /\ Len(emitted) = 2
    /\ emitted[1].by = "loop"

\* C4 (as claimed): a non-PINCH pose that differs from the pose of the
\* previous tick (a run of length 1, shorter than any confirm window K >= 2)
\* changes no mode and emits no event.
C4_Debounced ==
    [][ (detected' /\ lastTick' \in Pose \ {"PINCH_3_OPEN"} /\ lastTick' # lastTick)
            => (currentMode' = currentMode /\ ByArbiter(emitted') = {}) ]_vars

\* the value onRotateChange received from the inertia step of the frame
InertiaValue(evs) == evs[1].val

\* C5 (as claimed): on every loop frame in which the mode is not
\* NAVIGATION the rotation velocity strictly decreases in magnitude.
C5_StrictDecay ==
    [][ currentMode # "NAVIGATION"
            => Abs(InertiaValue(emitted')) < Abs(currentRotationVel) ]_vars

\* C5 (amended): on every loop frame in which the mode is not NAVIGATION, a
\* nonzero rotation velocity strictly decreases in magnitude without
\* changing sign (becoming 0 or keeping its sign), and a zero velocity stays 0.
C5_DecayOrZero ==
    [][ currentMode # "NAVIGATION"
            => LET v == InertiaValue(emitted')
               IN  /\ emitted'[1].cb = "onRotateChange" /\ emitted'[1].by = "loop"
                   /\ currentRotationVel = 0 => v = 0
                   /\ currentRotationVel > 0 => (0 <= v /\ v < currentRotationVel)
                   /\ currentRotationVel < 0 => (currentRotationVel < v /\ v <= 0) ]_vars

\* a second inertia step on a velocity that is still nonzero
C5_Witness ==
    /\ decaySteps = 2
    /\ currentRotationVel # 0
    /\ Len(emitted) > 0
    /\ emitted[1].by = "loop"
    /\ emitted[1].val = currentRotationVel

\* C6: the velocity never survives DecayFrames inertia steps (it is exactly
\* 0 after at most DecayFrames frames outside NAVIGATION), and once 0 it
\* becomes nonzero only on a PINCH tick that emits a rotation update.
C6_DecayTerminates ==
    [][ /\ decaySteps' < DecayFrames
        /\ (currentRotationVel = 0 /\ currentRotationVel' # 0)
               => /\ detected' /\ lastTick' = "PINCH_3_OPEN"
                  /\ \E i \in DOMAIN emitted' :
                         /\ emitted'[i].cb = "onRotateChange"
                         /\ emitted'[i].by = "processState"
                         /\ emitted'[i].val = currentRotationVel' ]_vars

\* the last nonzero value of the longest decay: the next inertia step snaps to 0
C6_Witness ==
    /\ decaySteps = DecayFrames - 1
    /\ currentMode # "NAVIGATION"
    /\ currentRotationVel # 0
    /\ Decay(currentRotationVel) = 0

\* C7: a tick on which no hand is found emits onPhotoFocusChange(false),
\* leaves photo focus false and the mode IDLE.
C7_HandLostResets ==
    Ticked("LOST") =>
        /\ currentMode = "IDLE"
        /\ ~isPhotoFocused
        /\ \E i \in DOMAIN emitted :
               /\ emitted[i].cb = "onPhotoFocusChange"
               /\ emitted[i].val = FALSE
               /\ emitted[i].by = "handleHandLost"

\* the hand was lost after the arbiter last saw POINTING
C7_Witness ==
    /\ Ticked("LOST")
    /\ previousPose = "POINTING"
    /\ currentMode = "IDLE"
    /\ ~isPhotoFocused

\* C8 (as claimed): a FIST tick whose preceding detection tick was not
\* POINTING leaves photo focus as it was.
C8_FistWithoutPointing ==
    [][ (detected' /\ lastTick' = "FIST" /\ lastTick # "POINTING")
            => isPhotoFocused' = isPhotoFocused ]_vars

\* C9 (as claimed): a FIST tick right after a POINTING tick leaves photo
\* focus true, and a FIST tick right after a FIST tick leaves it unchanged.
C9_PointingFistToggles ==
    [][ /\ (detected' /\ lastTick' = "FIST" /\ lastTick = "POINTING")
               => isPhotoFocused' = TRUE
        /\ (detected' /\ lastTick' = "FIST" /\ lastTick = "FIST")
               => isPhotoFocused' = isPhotoFocused ]_vars

\* the value callback cb last received before the frame, when the state
\* shows that it received one: the velocity and the zoom factor change only
\* together with their callback (onRotateChange was first called by the
\* first loop frame), and isPhotoFocused is what onPhotoFocusChange last set
Delivered(cb) ==
    IF cb = "onRotateChange"
    THEN Some(currentRotationVel)
    ELSE IF cb = "onZoomChange"
    THEN IF currentZoomFactor # INITIAL_ZOOM \/ HasCb(emitted, cb)
         THEN Some(currentZoomFactor) ELSE Null
    ELSE IF cb = "onPhotoFocusChange"
    THEN IF isPhotoFocused \/ previousPose # "UNKNOWN" \/ lastTick = "LOST"
         THEN Some(isPhotoFocused) ELSE Null
    ELSE Null

\* C10 (as claimed): a tick that repeats the pose of the previous tick
\* emits no state-change event, and no call of onPhotoFocusChange,
\* onZoomChange or onRotateChange passes the value the callback last received.
C10_OnlyOnChange ==
    [][ /\ (detected' /\ lastTick' \in Pose /\ lastTick' = lastTick)
               => ~HasCb(emitted', "onStateChange")
        /\ \A i \in DOMAIN emitted' :
               LET cb == emitted'[i].cb
                   earlier == { j \in 1..(i - 1) : emitted'[j].cb = cb }
               IN  (cb # "onStateChange" /\ earlier = {} /\ ~IsNull(Delivered(cb)))
                       => emitted'[i].val # Val(Delivered(cb)) ]_vars

\* the four callbacks of HandControllerProps
Callbacks == {"onStateChange", "onZoomChange", "onRotateChange", "onPhotoFocusChange"}

\* the calls of cb within the latest frame
CallsOf(cb) == { i \in DOMAIN emitted : emitted[i].cb = cb }

\* C11: within one loop frame (the inertia step and at most one detection
\* pass) each of the four callbacks is invoked at most once.
C11_AtMostOncePerFrame == \A cb \in Callbacks : Cardinality(CallsOf(cb)) <= 1

\* a frame whose inertia step called onRotateChange and whose detection pass
\* saw FIST: three callbacks, each called once
C11_Witness ==
    /\ Ticked("FIST")
    /\ Len(emitted) = 3
    /\ emitted[1].by = "loop"
    /\ \A cb \in Callbacks \ {"onZoomChange"} : Cardinality(CallsOf(cb)) = 1

\* the horizontal displacement of the pinch centroid over the frame
CentroidDx == Val(lastHandCentroid').x - Val(lastHandCentroid).x

\* the frame's detection pass called onRotateChange(v)
RotateEmitted(v) ==
    \E i \in DOMAIN emitted' :
        /\ emitted'[i].cb = "onRotateChange"
        /\ emitted'[i].by = "processState"
        /\ emitted'[i].val = v

\* a detection tick that sees PINCH while a previous pinch centroid exists
PinchWithCentroid ==
    detected' /\ lastTick' = "PINCH_3_OPEN" /\ ~IsNull(lastHandCentroid)

\* C12 (as claimed): on every PINCH tick for which a previous pinch centroid
\* exists, the rotation velocity is set to -dx * 12.0 and that value is
\* emitted through onRotateChange.
C12_AlwaysSet ==
    [][ PinchWithCentroid
            => /\ currentRotationVel' = (-CentroidDx) * ROTATION_SENSITIVITY * VelPerCoord
               /\ RotateEmitted(currentRotationVel') ]_vars

\* C12 (amended): on every PINCH tick for which a previous pinch centroid
\* exists and the centroid moved horizontally by more than 0.001, the
\* rotation velocity is set to -dx * 12.0 and emitted through
\* onRotateChange; when it moved by 0.001 or less the velocity keeps its
\* value and onRotateChange is not called by the tick.
C12_SetWhenMoved ==
    [][ PinchWithCentroid
            => IF Abs(CentroidDx) > ROTATION_DEADZONE
               THEN /\ currentRotationVel' = (-CentroidDx) * ROTATION_SENSITIVITY * VelPerCoord
                    /\ RotateEmitted(currentRotationVel')
               ELSE /\ currentRotationVel' = currentRotationVel
                    /\ ~HasCb(emitted', "onRotateChange") ]_vars

\* the pinch went from x = 0.50 to x = 0.52 and the tick emitted -0.24
C12_Witness ==
    /\ Ticked("PINCH_3_OPEN")
    /\ Val(lastHandCentroid).x = 520
    /\ currentRotationVel = -(240 * VelPerCoord)
    /\ \E i \in DOMAIN emitted :
           emitted[i].cb = "onRotateChange" /\ emitted[i].val = -(240 * VelPerCoord)

\* the zoom factor plus the change of hand scale over the frame times
\* ZOOM_SENSITIVITY, before clamping
ZoomRaw ==
    currentZoomFactor + (Val(lastHandScale') - Val(lastHandScale)) * ZOOM_SENSITIVITY

\* the frame's detection pass called onZoomChange(z)
ZoomEmitted(z) ==
    \E i \in DOMAIN emitted' :
        emitted'[i].cb = "onZoomChange" /\ emitted'[i].val = z

\* C13: on every PINCH tick for which a previous hand scale exists, the zoom
\* factor becomes clamp(zoom + (scale - previous scale) * 6.0, 0, 1) and the
\* new value is emitted through onZoomChange.
C13_ZoomFollowsScale ==
    [][ (detected' /\ lastTick' = "PINCH_3_OPEN" /\ ~IsNull(lastHandScale))
            => /\ currentZoomFactor' =
                      IF ZoomRaw < 0 THEN 0
                      ELSE IF ZoomRaw > ZOOM_MAX THEN ZOOM_MAX ELSE ZoomRaw
               /\ ZoomEmitted(currentZoomFactor') ]_vars

\* from zoom 0.5 the hand scale went from 0.18 to 0.20 and the tick
\* emitted 0.62
C13_Witness ==
    /\ Ticked("PINCH_3_OPEN")
    /\ Val(lastHandScale) = 200
    /\ currentZoomFactor = INITIAL_ZOOM + 120
    /\ \E i \in DOMAIN emitted :
           emitted[i].cb = "onZoomChange" /\ emitted[i].val = INITIAL_ZOOM + 120

\* C14: when the hand is lost while NAVIGATION is active, the tick that
\* finds it lost leaves the rotation velocity untouched by the decay
\* formula (it keeps its value and the inertia step reports nothing), and
\* ends with the mode IDLE and photo focus false.
C14_LostInNavigation ==
    [][ (currentMode = "NAVIGATION" /\ detected' /\ lastTick' = "LOST")
            => /\ currentRotationVel' = currentRotationVel
               /\ ~HasCb(emitted', "onRotateChange")
               /\ currentMode' = "IDLE"
               /\ ~isPhotoFocused' ]_vars

\* the hand was lost out of a navigation that had set a velocity: the frame
\* ran no inertia step, so its only call is that of handleHandLost
C14_Witness ==
    /\ Ticked("LOST")
    /\ previousPose = "PINCH_3_OPEN"
    /\ emitted = <<Ev("onPhotoFocusChange", FALSE, "handleHandLost")>>
    /\ currentRotationVel # 0
    /\ currentMode = "IDLE"

\* init() has nothing in flight any more
InitSettled == initPc \in {"running", "returned", "failed"}

\* C15 (as claimed): once the cleanup has run and the init step in flight
\* has finished, every camera track acquired is stopped and every
\* landmarker created is closed, at whatever point of init() the cleanup ran.
C15_AllReleased ==
    (~isActive /\ InitSettled) => (stream # "live" /\ handLandmarkerRef # "open")

\* C16 (as claimed): a tick on which the detector throws is treated as
\* hand-lost: the mode is IDLE, onPhotoFocusChange(false) is emitted and the
\* last centroid and scale are cleared.
C16_ThrowIsHandLost ==
    Ticked("THREW")
        => /\ currentMode = "IDLE"
           /\ \E i \in DOMAIN emitted :
                  emitted[i].cb = "onPhotoFocusChange" /\ emitted[i].val = FALSE
           /\ IsNull(lastHandCentroid)
           /\ IsNull(lastHandScale)

\* a failed session as the claim describes it: the failure was reported at
\* most once, and exactly once if the component is still mounted; no
\* landmarker is in place, no frame has run and no callback was invoked
FailedQuietly ==
    /\ Len(setErrorCalls) <= 1
    /\ isActive => Len(setErrorCalls) = 1
    /\ handLandmarkerRef = "null"
    /\ emitted = <<>>
    /\ ~detected

\* C17: if the camera cannot be acquired or the detector fails to
\* initialise, the failure is reported once as an error status, nothing is
\* retried, the loop is never started and none of the four callbacks is
\* ever invoked in that session.
C17_FailureReportedOnce ==
    [][ /\ initPc' = "failed" => FailedQuietly'
        /\ initPc = "failed"
               => /\ FailedQuietly
                  /\ initPc' = "failed"
                  /\ setErrorCalls' = setErrorCalls
                  /\ emitted' = <<>> ]_vars

\* the camera was acquired but the detector failed to initialise, and the
\* mounted component shows "Camera Error"
C17_Witness ==
    /\ initPc = "failed"
    /\ isActive
    /\ stream = "live"
    /\ setErrorCalls = <<"Camera Error">>

\* C18 (as claimed): every detection tick that sees FIST leaves the App's
\* tree state FORMED once the tick's callbacks have been handled, whatever
\* the mode, the pose or the photo focus were before.
C18_FistFormsTree == Ticked("FIST") => treeState = "FORMED"

\* a detection tick that starts in NAVIGATION and sees a pose other than PINCH
NavigationEnds ==
    currentMode = "NAVIGATION" /\ detected' /\ lastTick' \in Pose \ {"PINCH_3_OPEN"}

\* C19 (as claimed): on every detection tick where the mode is NAVIGATION
\* and the pose is anything other than PINCH (OPEN, FIST, POINTING or
\* UNKNOWN), the mode becomes IDLE and the last pinch centroid and last
\* hand scale are cleared.
C19_NavigationToIdle ==
    [][ NavigationEnds
            => /\ currentMode' = "IDLE"
               /\ IsNull(lastHandCentroid')
               /\ IsNull(lastHandScale') ]_vars

\* C19 (amended): on every such tick the mode leaves NAVIGATION, for IDLE
\* when the pose is OPEN, FIST or UNKNOWN and for SELECTION when it is
\* POINTING, and the last pinch centroid and last hand scale are cleared.
C19_NavigationLeft ==
    [][ NavigationEnds
            => /\ currentMode' = IF lastTick' = "POINTING" THEN "SELECTION" ELSE "IDLE"
               /\ IsNull(lastHandCentroid')
               /\ IsNull(lastHandScale') ]_vars

\* a POINTING tick straight out of navigation: the frame ran no inertia
\* step, and the mode is SELECTION with the deltas cleared
C19_Witness ==
    /\ Ticked("POINTING")
    /\ emitted = <<Ev("onPhotoFocusChange", TRUE, "processState")>>
    /\ currentMode = "SELECTION"
    /\ IsNull(lastHandCentroid)
    /\ IsNull(lastHandScale)

\* a detection tick that sees POINTING while the mode is IDLE or SELECTION
PointingOutsideNavigation ==
    currentMode \in {"IDLE", "SELECTION"} /\ detected' /\ lastTick' = "POINTING"

\* the calls made by the frame's detection pass, in order
ArbiterCalls == SelectSeq(emitted', LAMBDA e : e.by # "loop")

TickCalled(cb, v) ==
    \E i \in DOMAIN emitted' :
        /\ emitted'[i].by # "loop"
        /\ emitted'[i].cb = cb
        /\ emitted'[i].val = v

\* C21: on a detection tick in mode IDLE, FIST emits onStateChange(FORMED),
\* OPEN emits onStateChange(CHAOS) and clears photo focus to false, and in
\* both cases the mode remains IDLE.
C21_IdleBulkGestures ==
    [][ (currentMode = "IDLE" /\ detected')
            => /\ lastTick' = "FIST"
                   => (TickCalled("onStateChange", "FORMED") /\ currentMode' = "IDLE")
               /\ lastTick' = "OPEN"
                   => /\ TickCalled("onStateChange", "CHAOS")
                      /\ TickCalled("onPhotoFocusChange", FALSE)
                      /\ ~isPhotoFocused'
                      /\ currentMode' = "IDLE" ]_vars

\* a tick saw OPEN in a frame that began at rest outside NAVIGATION (as the
\* first tick of a session does, in mode IDLE): the tree is dispersed, the
\* focus cleared and the mode IDLE
C21_Witness ==
    /\ Ticked("OPEN")
    /\ emitted = <<Ev("onRotateChange", 0, "loop"),
                   Ev("onStateChange", "CHAOS", "processState"),
                   Ev("onPhotoFocusChange", FALSE, "processState")>>
    /\ currentMode = "IDLE"
    /\ ~isPhotoFocused

\* C22: the zoom factor is modified, and onZoomChange invoked, only on a
\* PINCH detection tick: inertia steps, non-PINCH ticks and hand-lost ticks
\* leave the zoom factor unchanged.
C22_ZoomOnlyOnPinch ==
    [][ (currentZoomFactor' # currentZoomFactor \/ HasCb(emitted', "onZoomChange"))
            => (detected' /\ lastTick' = "PINCH_3_OPEN") ]_vars

\* a zoomed-in view survived a tick that saw no pinch: the hand was lost
\* with the zoom factor away from its initial value
C22_Witness ==
    /\ Ticked("LOST")
    /\ currentZoomFactor # INITIAL_ZOOM
    /\ ~HasCb(emitted, "onZoomChange")

\* C23: at the end of every detection tick whose resulting mode is not
\* NAVIGATION the last pinch centroid and the last hand scale are both
\* absent; hence the first PINCH tick of a navigation episode emits no
\* rotation and no zoom update and leaves velocity (as the frame's inertia
\* step left it) and zoom unchanged.
C23_EpisodeStartsClean ==
    [][ /\ (detected' /\ currentMode' # "NAVIGATION")
               => (IsNull(lastHandCentroid') /\ IsNull(lastHandScale'))
        /\ (currentMode # "NAVIGATION" /\ detected' /\ lastTick' = "PINCH_3_OPEN")
               => /\ \A i \in DOMAIN emitted' : ~NavUpdate(emitted'[i])
                  /\ emitted'[1].by = "loop"
                  /\ currentRotationVel' = emitted'[1].val
                  /\ currentZoomFactor' = currentZoomFactor ]_vars

\* a second navigation episode begins: the first PINCH tick after an
\* episode that had set velocity and zoom emits only the focus release
C23_Witness ==
    /\ Ticked("PINCH_3_OPEN")
    /\ Len(emitted) = 2
    /\ emitted[1].by = "loop"
    /\ emitted[1].val # 0
    /\ emitted[2] = Ev("onPhotoFocusChange", FALSE, "processState")
    /\ currentZoomFactor # INITIAL_ZOOM
    /\ ~IsNull(lastHandCentroid)

\* the per-finger predicates of the frame under classification, for the
\* fingers index, middle, ring and pinky (tip and PIP landmark of each)
FingerJoints == <<<<8, 6>>, <<12, 10>>, <<16, 14>>, <<20, 18>>>>

Extended(f) == isFingerExtended(classified.hand, FingerJoints[f][1], FingerJoints[f][2])

Curled(f) == isFingerCurled(classified.hand, FingerJoints[f][1], FingerJoints[f][2])

\* the four patterns in the order of the claim, with the pose each names
Patterns ==
    << [pose |-> "PINCH_3_OPEN",
        holds |-> isPinch(classified.hand, classified.hand.scale)
                     /\ \A f \in 2..4 : Extended(f)],
       [pose |-> "POINTING", holds |-> Extended(1) /\ \A f \in 2..4 : Curled(f)],
       [pose |-> "FIST", holds |-> \A f \in 1..4 : Curled(f)],
       [pose |-> "OPEN", holds |-> \A f \in 1..4 : Extended(f)] >>

\* C24: determinePose returns the first matching pose in the order PINCH,
\* POINTING, FIST, OPEN, and UNKNOWN when none matches, for every
\* combination of the per-finger extended and curled predicates and the
\* pinch predicate, frames that match several patterns included.
C24_FirstMatchWins ==
    classified.pose # "NONE"
        => LET matching == { k \in DOMAIN Patterns : Patterns[k].holds }
           IN  IF matching = {} THEN classified.pose = "UNKNOWN"
               ELSE classified.pose =
                        Patterns[CHOOSE k \in matching : \A j \in matching : k <= j].pose

\* a frame whose index finger is both extended and curled while the others
\* are curled matches POINTING and FIST at once, and is classified POINTING
C24_Witness ==
    /\ classified.pose = "POINTING"
    /\ Patterns[2].holds
    /\ Patterns[3].holds

\* C25: the inertia step runs on every loop frame (outside NAVIGATION it
\* decays and reports the velocity whether or not detection runs), while
\* detection runs only when at least DETECTION_INTERVAL has elapsed since
\* the last detection that ran; a frame on which detection is skipped
\* changes no mode, pose or navigation state.
C25_DecoupledCadence ==
    [][ /\ currentMode # "NAVIGATION"
               => /\ Len(emitted') >= 1
                  /\ emitted'[1].cb = "onRotateChange"
                  /\ emitted'[1].by = "loop"
                  /\ currentRotationVel # 0
                         => Abs(emitted'[1].val) < Abs(currentRotationVel)
        /\ detected'
               => /\ \E dt \in ThrottleDts : elapsed + dt >= DETECTION_INTERVAL
                  /\ elapsed' = 0
        /\ ~detected'
               => /\ currentMode' = currentMode
                  /\ previousPose' = previousPose
                  /\ lastHandCentroid' = lastHandCentroid
                  /\ lastHandScale' = lastHandScale
                  /\ currentZoomFactor' = currentZoomFactor
                  /\ isPhotoFocused' = isPhotoFocused
                  /\ lastTick' = lastTick
                  /\ Len(emitted') <= 1 ]_vars

\* 8 ms after a tick that saw FIST: the frame ran the inertia step on a
\* velocity still decaying and skipped detection
C25_Witness ==
    /\ ~detected
    /\ elapsed = 8
    /\ lastTick = "FIST"
    /\ Len(emitted) = 1
    /\ emitted[1].by = "loop"
    /\ emitted[1].val # 0

\* C26 (as claimed): in the variant that gates tree events on the previous
\* pose, the events emitted for the poses seen after a hand loss do not
\* depend on what was seen before the loss: two runs that lose the hand on
\* the same tick and see the same poses afterwards emit the same events.
C26_LossForgetsPose == gated.phase = "after" => gated.evA = gated.evB

\* C27: at the end of every detection tick the photo-focus value last
\* emitted through onPhotoFocusChange (false before any emission) is true
\* exactly when the mode is SELECTION, whatever poses, hand losses and
\* detector faults came before.
C27_FocusIffSelection ==
    detected => (isPhotoFocused <=> currentMode = "SELECTION")

\* a tick on which the detector threw while a photo was focused: the focus
\* and the mode SELECTION both outlive the fault
C27_Witness ==
    /\ Ticked("THREW")
    /\ currentMode = "SELECTION"
    /\ isPhotoFocused
    /\ previousPose = "POINTING"

\* a PINCH tick in NAVIGATION whose centroid moved by at most 0.001
StillPinch ==
    /\ currentMode = "NAVIGATION"
    /\ PinchWithCentroid
    /\ Abs(CentroidDx) <= ROTATION_DEADZONE

\* C28: a loop frame that starts in NAVIGATION applies no inertia decay,
\* and a PINCH tick in NAVIGATION whose centroid moved by |dx| <= 0.001
\* leaves the rotation velocity unchanged and emits no rotation update, so
\* the velocity of the last larger movement persists while the pinch is
\* held still.
C28_HeldPinchKeepsVelocity ==
    [][ /\ currentMode = "NAVIGATION"
               => \A i \in DOMAIN emitted' : emitted'[i].by # "loop"
        /\ StillPinch
               => /\ currentRotationVel' = currentRotationVel
                  /\ ~HasCb(emitted', "onRotateChange")
                  /\ currentMode' = "NAVIGATION" ]_vars

\* a PINCH tick that found the pinch where it was, with the velocity of an
\* earlier movement still set: the tick reported the zoom and no rotation
C28_Witness ==
    /\ Ticked("PINCH_3_OPEN")
    /\ currentMode = "NAVIGATION"
    /\ currentRotationVel # 0
    /\ HasCb(emitted, "onZoomChange")
    /\ ~HasCb(emitted, "onRotateChange")

\* C29: after teardown (the cleanup has set isActive to false) no step
\* runs the inertia step or detection, starts or continues the frame loop,
\* or invokes any of the four callbacks, even when an init step completes
\* afterwards: the controller's state and the record of the last frame's
\* callbacks stay as the teardown found them, and the detection clock is
\* touched only by init() setting it before its call of loop().
C29_QuietAfterTeardown ==
    [][ ~isActive
            => /\ UNCHANGED <<currentMode, previousPose, lastHandCentroid,
                              lastHandScale, currentRotationVel, currentZoomFactor,
                              isPhotoFocused, emitted, detected, lastTick,
                              decaySteps, isActive>>
               /\ initPc' # initPc => initPc' # "running"
               /\ elapsed' # elapsed => initPc = "createFromOptions" ]_vars

\* torn down while createFromOptions was pending, which then resolved: the
\* landmarker was stored and loop() was called, and returned at once
C29_Witness ==
    /\ ~isActive
    /\ initPc = "returned"
    /\ handLandmarkerRef = "open"
    /\ stream = "stopped"
    /\ emitted = <<>>
    /\ lastTick = "NONE"

\* the gift code is non-empty, the custom ID matches [a-zA-Z0-9-_]+, a file
\* is selected and the pre-check found no gift with that ID
GiftAdmitted ==
    /\ gift.giftCode # <<>>
    /\ Len(gift.customId) >= 1
    /\ \A i \in DOMAIN gift.customId : gift.customId[i] \in {"a", "9", "-", "_"}
    /\ gift.files >= 1
    /\ gift.preCheck = "free"

\* no photo is uploaded and no RPC is issued unless the run was admitted
GiftGuarded == (gift.uploads > 0 \/ gift.rpcIssued) => GiftAdmitted

\* a run that was not admitted ends with status 'error'
GiftRejected == (gift.pc = "done" /\ ~GiftAdmitted) => gift.status = "error"

\* the RPC answered without error and its result says success
RpcReportedSuccess ==
    /\ ~gift.rpc.error
    /\ gift.rpc.shape \in {"object", "array1"}
    /\ gift.rpc.success = "true"

\* C30 (as claimed): in the gift link generator no photo is uploaded and
\* no create-gift RPC is issued unless the gift code is non-empty, the
\* custom ID matches [a-zA-Z0-9-_]+, at least one file is selected and the
\* pre-check found no gift with that ID; in every other case generateGift
\* ends with status 'error'; and status 'success' is reached only after the
\* RPC reports success.
C30_GuardedAndReported ==
    /\ GiftGuarded
    /\ GiftRejected
    /\ gift.status = "success" => RpcReportedSuccess

====
